---- MODULE Spec2Model ----
(***************************************************************************)
(* Webhook-to-catalog product replication: the POST handlers of            *)
(*   src/src/app/api/replicate-product/route.ts  (three handlers, written  *)
(*       one after another in the file: route_1, route_2, route_3),        *)
(*   src/unnamed/part_000  (product + variations, no per-variation catch), *)
(*   src/unnamed/part_001  (idempotency guard, markup prices, per-         *)
(*       variation catch).                                                 *)
(* One behaviour of the model is one invocation of one handler on one      *)
(* request; every await of the code is a step boundary.                    *)
(*                                                                         *)
(* Representation.  A JavaScript string on which the code computes         *)
(* (prices, attribute names, the content-length header) is a sequence of   *)
(* one-character strings; a string the code only compares or passes on is  *)
(* a TLA+ string.  An optional value (a field that may be undefined) is a  *)
(* sequence of length 0 (None) or 1 (Some(v)).  A JavaScript number is a   *)
(* record [nan, c]: NaN, or c hundredths.                                  *)
(***************************************************************************)
EXTENDS Integers, Sequences, FiniteSets, TLC

None == <<>>
Some(v) == <<v>>
IsSome(o) == Len(o) = 1
Val(o) == o[1]

(***************************************************************************)
(* Bounds of the model.                                                    *)
(***************************************************************************)
\* longest options list of a size attribute
MaxOptions == 3
\* longest list the existence query answers with
MaxExisting == 2
\* how many deliveries follow one another in one behaviour
MaxDeliveries == 3
\* how many invocations one behaviour holds when they interleave
MaxInFlight == 2

(***************************************************************************)
(* Strings and numbers.                                                    *)
(***************************************************************************)
Digits == <<"0", "1", "2", "3", "4", "5", "6", "7", "8", "9">>
IsDigit(c) == \E i \in 1..10 : Digits[i] = c
DigitVal(c) == (CHOOSE i \in 1..10 : Digits[i] = c) - 1

Upper == <<"A","B","C","D","E","F","G","H","I","J","K","L","M",
           "N","O","P","Q","R","S","T","U","V","W","X","Y","Z">>
Lower == <<"a","b","c","d","e","f","g","h","i","j","k","l","m",
           "n","o","p","q","r","s","t","u","v","w","x","y","z">>

\* String.prototype.toLowerCase, character by character
ToLowerCase(s) ==
  [i \in 1..Len(s) |->
     IF \E k \in 1..26 : Upper[k] = s[i]
       THEN Lower[CHOOSE k \in 1..26 : Upper[k] = s[i]]
       ELSE s[i]]

\* the number of consecutive digits of s starting at index i
RECURSIVE DigitRun(_, _)
DigitRun(s, i) ==
  IF i <= Len(s) /\ IsDigit(s[i]) THEN 1 + DigitRun(s, i + 1) ELSE 0

\* the value of the digits s[i] .. s[i+n-1]
RECURSIVE DigitsValue(_, _, _)
DigitsValue(s, i, n) ==
  IF n = 0 THEN 0 ELSE 10 * DigitsValue(s, i, n - 1) + DigitVal(s[i + n - 1])

\* a number: c hundredths and m thousandths (0..9); Num(c) is a number of
\* whole hundredths
NaN == [nan |-> TRUE, c |-> 0, m |-> 0]
Num(c) == [nan |-> FALSE, c |-> c, m |-> 0]

\* the value in thousandths
Milli(x) == 10 * x.c + x.m

\* parseFloat on an optional string: the longest prefix  digits [ "." digits ];
\* NaN when the prefix holds no digit (undefined reads as "undefined").
\* Thousandths are exact for the inputs of the model, which carry at most
\* three fraction digits and neither sign, exponent nor leading blank.
ParseFloat(o) ==
  IF ~IsSome(o) THEN NaN
  ELSE LET s  == Val(o)
           n1 == DigitRun(s, 1)
           dot == n1 + 1 <= Len(s) /\ s[n1 + 1] = "."
           n2 == IF dot THEN DigitRun(s, n1 + 2) ELSE 0
           f1 == IF n2 >= 1 THEN DigitVal(s[n1 + 2]) ELSE 0
           f2 == IF n2 >= 2 THEN DigitVal(s[n1 + 3]) ELSE 0
           f3 == IF n2 >= 3 THEN DigitVal(s[n1 + 4]) ELSE 0
       IN IF n1 = 0 /\ n2 = 0 THEN NaN
          ELSE [nan |-> FALSE,
                c |-> 100 * DigitsValue(s, 1, n1) + 10 * f1 + f2, m |-> f3]

\* parseInt(s, 10) on a string: the leading digits; NaN when there is none
ParseInt(s) ==
  LET n == DigitRun(s, 1)
  IN IF n = 0 THEN NaN ELSE Num(100 * DigitsValue(s, 1, n))

\* a + b on numbers
Plus(a, b) ==
  IF a.nan \/ b.nan THEN NaN
  ELSE [nan |-> FALSE, c |-> (Milli(a) + Milli(b)) \div 10,
        m |-> (Milli(a) + Milli(b)) % 10]

\* a < b on numbers: false when either is NaN
LessThan(a, b) == ~a.nan /\ ~b.nan /\ a.c < b.c

\* the decimal digits of a natural number
RECURSIVE NatToString(_)
NatToString(n) ==
  IF n < 10 THEN <<Digits[n + 1]>>
  ELSE NatToString(n \div 10) \o <<Digits[(n % 10) + 1]>>

\* The numbers are IEEE-754 doubles. Of the values of the model that end in
\* 5 thousandths, those whose double lies below the decimal value (in
\* thousandths): 1.005 is the double 1.00499999999999989..., 1.005 + 40 + 40
\* is 81.00499999999999545...; 1.005 + 40 is 41.00500000000000255..., above.
DoubleBelowDecimal == {1005, 81005}

\* the hundredths toFixed(2) rounds to: the nearest to the double's value
RoundedHundredths(x) ==
  IF x.m > 5 \/ (x.m = 5 /\ Milli(x) \notin DoubleBelowDecimal)
    THEN x.c + 1
    ELSE x.c

\* Number.prototype.toFixed(2) on a non-negative number
ToFixed2(x) ==
  IF x.nan THEN <<"N", "a", "N">>
  ELSE LET h == RoundedHundredths(x)
       IN NatToString(h \div 100) \o <<".">>
            \o <<Digits[((h % 100) \div 10) + 1], Digits[(h % 10) + 1]>>

(***************************************************************************)
(* Program constants.                                                      *)
(***************************************************************************)
\* part_001: basePrice + 40, regularPrice += 40
Markup == 40
\* route.ts, second handler: contentLength < 100
TestLengthLimit == 100

WEBHOOK_SECRET == "s3cret"
OtherSecret == "not-the-secret"
wcApiUrl == "https://store2.example/wp-json/wc/v3/products"

Variants == {"route_1", "route_2", "route_3", "part_000", "part_001"}

(***************************************************************************)
(* Products (the parsed body).                                             *)
(***************************************************************************)
Str(s) == Some(s)

P_10_00 == <<"1", "0", ".", "0", "0">>
P_10    == <<"1", "0">>
P_9_5   == <<"9", ".", "5">>
P_0_99  == <<"0", ".", "9", "9">>
P_1_005 == <<"1", ".", "0", "0", "5">>
P_15_00 == <<"1", "5", ".", "0", "0">>
P_50_00 == <<"5", "0", ".", "0", "0">>
P_90_00 == <<"9", "0", ".", "0", "0">>
P_abc   == <<"a", "b", "c">>
Blank   == <<>>

\* the price field: undefined, or a string
Prices == {None, Str(Blank), Str(P_abc), Str(P_10_00), Str(P_10), Str(P_9_5),
           Str(P_0_99), Str(P_1_005)}
RegularPrices == {None, Str(Blank), Str(P_15_00), Str(P_50_00)}

N_Size  == <<"S", "i", "z", "e">>
N_size  == <<"s", "i", "z", "e">>
N_SIZE  == <<"S", "I", "Z", "E">>
N_Color == <<"C", "o", "l", "o", "r">>

CustomPlain  == "Custom Size (+40)"
CustomDollar == "Custom Size (+$40)"

\* the option labels, in the order the generated lists cycle through
Labels == <<"M", CustomPlain, "L", CustomDollar, "custom size">>

\* the list of n labels starting at the k-th
OptionsFrom(k, n) ==
  [i \in 1..n |-> Labels[((k + i - 2) % Len(Labels)) + 1]]

OptionLists ==
  {OptionsFrom(k, n) : k \in 1..Len(Labels), n \in 0..MaxOptions}

Attr(id, name, position, visible, variation, options) ==
  [id |-> id, name |-> name, slug |-> "pa_attr",
   position |-> position, visible |-> visible, variation |-> variation,
   options |-> options]

SizeAttr(options) == Attr(7, Some(N_Size), None, None, None, Some(options))
ColorAttr == Attr(3, Some(N_Color), Some(2), Some(FALSE), Some(FALSE),
                  Some(<<"Red", "Blue">>))

Meta(key, value) == [key |-> key, value |-> value]
OriginMeta(x) == Meta("origin_id", Some(x))

BaseMeta == <<Meta("_source", Some("store1")), OriginMeta("X1")>>
BaseImages == Some(<<[src |-> "https://store1.example/a.png"]>>)

Product(price, regular, images, attributes, meta) ==
  [kind |-> "object", name |-> "Shirt", status |-> "publish",
   price |-> price, regular_price |-> regular, images |-> images,
   attributes |-> attributes, meta_data |-> meta]

\* the body parses to null
DocNull == [kind |-> "null"]

BaseProduct ==
  Product(Str(P_10_00), Str(Blank), BaseImages,
          Some(<<ColorAttr, SizeAttr(OptionsFrom(1, MaxOptions))>>),
          Some(BaseMeta))

\* every price, regular price and options list
PricingProducts ==
  {Product(p, r, BaseImages, Some(<<SizeAttr(o)>>), Some(BaseMeta)) :
     p \in Prices, r \in RegularPrices, o \in OptionLists}

MetaLists ==
  {None, Some(<<>>), Some(<<Meta("_source", Some("store1"))>>),
   Some(<<OriginMeta("X1")>>), Some(<<OriginMeta("X2")>>),
   Some(<<Meta("origin_id", Some(""))>>),
   Some(<<Meta("origin_id", None)>>),
   Some(<<Meta("origin_id", Some("")), OriginMeta("X2")>>),
   Some(<<OriginMeta("X1"), OriginMeta("X2")>>),
   Some(BaseMeta)}

MetaProducts ==
  {Product(Str(P_10_00), None, BaseImages,
           Some(<<SizeAttr(<<"M", CustomPlain>>)>>), m) : m \in MetaLists}

AttributeLists ==
  {None, Some(<<>>), Some(<<ColorAttr>>),
   Some(<<ColorAttr, Attr(8, Some(N_size), Some(0), Some(TRUE), None,
                          Some(<<"S", "M">>))>>),
   Some(<<Attr(9, Some(N_SIZE), None, None, Some(TRUE), Some(<<"XL">>)),
          SizeAttr(<<"S">>)>>),
   Some(<<SizeAttr(<<>>)>>),
   Some(<<SizeAttr(<<>>), Attr(8, Some(N_size), None, None, None,
                               Some(<<"S">>))>>),
   Some(<<Attr(7, Some(N_Size), None, None, None, None)>>),
   Some(<<Attr(5, None, None, None, None, Some(<<"S">>)), SizeAttr(<<"S">>)>>)}

AttributeProducts ==
  {Product(Str(P_10_00), Str(P_15_00), BaseImages, a, Some(BaseMeta)) :
     a \in AttributeLists}

ImageLists ==
  {None, Some(<<>>),
   Some(<<[src |-> "https://store1.example/a.png"],
          [src |-> "https://store1.example/b.png"]>>)}

ImageProducts ==
  {Product(Str(P_10_00), None, i, Some(<<SizeAttr(<<"M">>)>>), Some(BaseMeta)) :
     i \in ImageLists}

Products ==
  {BaseProduct, DocNull} \cup PricingProducts \cup MetaProducts
    \cup AttributeProducts \cup ImageProducts

(***************************************************************************)
(* Requests.                                                               *)
(***************************************************************************)
\* a raw body: JSON text of a document in one of two layouts, or other text
RawJson(doc, layout) == [json |-> TRUE, layout |-> layout, doc |-> doc]
RawText(t) == [json |-> FALSE, layout |-> t, doc |-> DocNull]

Layouts == {"compact", "pretty"}

\* JSON.stringify: the compact text of a document
JSONStringify(doc) == RawJson(doc, "compact")

\* JSON.parse: the document of a JSON text; throws on any other text
JSONParseThrows(raw) == ~raw.json
JSONParse(raw) == raw.doc

\* crypto.createHmac('sha256', key).update(raw, 'utf8').digest('base64'):
\* the digest is determined by key and message, and digests of different
\* (key, message) pairs differ (no collision among the inputs of the model);
\* it is never the empty string.
HmacSha256Base64(key, raw) == [kind |-> "digest", key |-> key, msg |-> raw]

\* header values that are no digest: the empty string, some other text
EmptyString == [kind |-> "empty", key |-> "", msg |-> RawText("")]
OtherText   == [kind |-> "text", key |-> "", msg |-> RawText("AAAA")]

\* truthiness of a header value (string | null)
TruthyHeader(h) == IsSome(h) /\ Val(h).kind # "empty"

OtherBodies(raw) ==
  IF raw.json THEN {RawJson(raw.doc, l) : l \in Layouts \ {raw.layout}}
  ELSE {RawText("other")}

SignatureHeaders(raw) ==
  {None, Some(EmptyString), Some(OtherText),
   Some(HmacSha256Base64(WEBHOOK_SECRET, raw)),
   Some(HmacSha256Base64(OtherSecret, raw))}
    \cup {Some(HmacSha256Base64(WEBHOOK_SECRET, b)) : b \in OtherBodies(raw)}

ContentTypes ==
  {None, Some("application/json"), Some("application/x-www-form-urlencoded")}

ContentLengths ==
  {None, Some(<<"5", "0">>), Some(<<"9", "9">>), Some(<<"1", "0", "0">>),
   Some(<<"2", "0", "4", "8">>), Some(P_abc)}

Request(sig, ct, cl, raw) ==
  [signature |-> sig, contentType |-> ct, contentLength |-> cl, body |-> raw]

\* every header combination, on a few bodies
HeaderRequests ==
  {Request(s, ct, cl, b) :
     s \in SignatureHeaders(RawJson(BaseProduct, "compact")),
     ct \in ContentTypes, cl \in ContentLengths,
     b \in {RawJson(BaseProduct, "compact")}}
  \cup
  {Request(s, ct, cl, b) :
     s \in SignatureHeaders(RawText("webhook_id=12")),
     ct \in ContentTypes, cl \in ContentLengths,
     b \in {RawText("webhook_id=12")}}

\* every body, signed correctly or not at all
BodyRequests ==
  {Request(Some(HmacSha256Base64(WEBHOOK_SECRET, b)), Some("application/json"),
           None, b) :
     b \in {RawJson(d, "compact") : d \in Products}
           \cup {RawJson(BaseProduct, "pretty"), RawText("{\"name\":"),
                 RawText("webhook_id=12")}}
  \cup
  {Request(s, Some("application/json"), Some(<<"2", "0", "4", "8">>), b) :
     s \in {None, Some(OtherText)},
     b \in {RawJson(d, "compact") : d \in MetaProducts}}

Requests == HeaderRequests \cup BodyRequests

(***************************************************************************)
(* The target catalog's answers and the handler's responses.               *)
(***************************************************************************)
ProductIds == {501, 502}

\* an AxiosError: a transport error has no response, a non-2xx answer has one
AxiosErrors ==
  {[message |-> "Network Error", response |-> None],
   [message |-> "Request failed with status code 500",
    response |-> Some([status |-> 500, data |-> "upstream: internal error"])],
   [message |-> "Request failed with status code 400",
    response |-> Some([status |-> 400, data |-> "upstream: invalid product"])]}

\* a TypeError thrown by the handler's own code (it has no response field)
TypeError == [message |-> "TypeError", response |-> None]

\* the lists the existence query can answer with
ExistingLists ==
  UNION {[1..n -> {[id |-> i] : i \in ProductIds}] : n \in 0..MaxExisting}

ProductsUrl == [kind |-> "products", base |-> wcApiUrl]
QueryUrl(originId) ==
  [kind |-> "query", base |-> wcApiUrl, meta_key |-> "origin_id",
   meta_value |-> originId]
VariationsUrl(productId) ==
  [kind |-> "variations", base |-> wcApiUrl, productId |-> productId]

\* one outbound call and what it ended with
Call(method, url, body, out) ==
  [method |-> method, url |-> url, body |-> body, out |-> out]

\* NextResponse.json(body, {status})
Json(status, success, productId, message, error, details, response) ==
  [status |-> status, success |-> success, productId |-> productId,
   message |-> message, error |-> error, details |-> details,
   response |-> response]

ErrorJson(status, error) ==
  Json(status, None, None, None, Some(error), None, None)

\* { error: 'Failed to replicate product', details: e.message,
\*   response: e.response?.data }, status 500
ReplicateFailedJson(e) ==
  Json(500, None, None, None, Some("Failed to replicate product"),
       Some(e.message),
       IF IsSome(e.response) THEN Some(Val(e.response).data) ELSE None)

SuccessJson(productId, message) ==
  Json(200, Some(TRUE), Some(productId), message, None, None, None)

(***************************************************************************)
(* State.                                                                  *)
(***************************************************************************)
VARIABLES
  variant,        \* which handler runs
  request,        \* the inbound request: headers and raw body
  pc,             \* where the handler stands
  product,        \* the parsed body, once parsed
  originId,       \* part_001: the extracted origin identifier
  productId,      \* the identifier the product creation answered with
  sizeAttribute,  \* the attribute whose options become variations
  idx,            \* the option the variation loop stands at
  calls,          \* the outbound calls made so far, in order
  response,       \* the response returned, once returned
  catalog,        \* the products the invocations created in the target
                  \* catalog, in order of creation
  parked          \* the locals of the other invocations: finished ones and
                  \* ones suspended at an await

vars == <<variant, request, pc, product, originId, productId, sizeAttribute,
          idx, calls, response, catalog, parked>>

Init ==
  /\ variant \in Variants
  /\ request \in Requests
  /\ pc = "verify"
  /\ product = None
  /\ originId = None
  /\ productId = None
  /\ sizeAttribute = None
  /\ idx = 0
  /\ calls = <<>>
  /\ response = None
  /\ catalog = <<>>
  /\ parked = <<>>

\* return NextResponse.json(...)
Return(r) ==
  /\ pc' = "done"
  /\ response' = Some(r)

\* an exception no try block of the handler catches
Throw ==
  /\ pc' = "threw"
  /\ response' = None

(***************************************************************************)
(* Signature verification.                                                 *)
(***************************************************************************)
\* req.headers.get('x-wc-webhook-signature') || req.headers.get('X-WC-...'):
\* header names are case-insensitive, both reads give the same value
SignatureHeader(v, req) ==
  IF v = "route_1" THEN req.signature
  ELSE IF TruthyHeader(req.signature) THEN req.signature ELSE req.signature

\* a bug: the digest of the re-serialised JSON instead of the raw body
ComputedSignatureOfReserialized(secret, rawBody) ==
  HmacSha256Base64(secret, JSONStringify(JSONParse(rawBody)))

ComputedSignature(secret, rawBody) == HmacSha256Base64(secret, rawBody)

\* route_2 only: content-type form-urlencoded and content-length < 100
IsTestRequest(v, req) ==
  /\ v = "route_2"
  /\ req.contentType = Some("application/x-www-form-urlencoded")
  /\ LessThan(ParseInt(IF IsSome(req.contentLength) /\ Val(req.contentLength) # <<>>
                         THEN Val(req.contentLength) ELSE <<"0">>),
              Num(100 * TestLengthLimit))

\* the condition under which the handler answers 401
SignatureRejected(v, signatureHeader, computedSignature) ==
  IF v = "route_1"
    THEN signatureHeader # Some(computedSignature)
    ELSE ~TruthyHeader(signatureHeader)
           \/ signatureHeader # Some(computedSignature)

SignatureError(v, signatureHeader) ==
  IF v = "route_1" THEN "Invalid webhook signature"
  ELSE IF v \in {"route_2", "route_3"}
    THEN IF ~TruthyHeader(signatureHeader)
           THEN "Missing webhook signature header"
           ELSE "Invalid webhook signature"
  ELSE "Invalid or missing webhook signature"

VerifySignature ==
  /\ pc = "verify"
  /\ LET signatureHeader == SignatureHeader(variant, request)
         computedSignature == ComputedSignature(WEBHOOK_SECRET, request.body)
     IN IF IsTestRequest(variant, request)
          THEN Return(Json(200, None, None,
                           Some("Test request received successfully"),
                           None, None, None))
        ELSE IF SignatureRejected(variant, signatureHeader, computedSignature)
          THEN Return(ErrorJson(401, SignatureError(variant, signatureHeader)))
        ELSE /\ pc' = "parse"
             /\ response' = response
  /\ UNCHANGED <<variant, request, product, originId, productId, sizeAttribute,
                 idx, calls, catalog, parked>>

(***************************************************************************)
(* Parsing.                                                                *)
(***************************************************************************)
\* a bug: no catch around JSON.parse, whatever it yields is the product
ParseOutcomeWithoutCatch(rawBody) == "parsed"

\* try { product = JSON.parse(rawBody) } catch { return 400 }
ParseOutcome(rawBody) == IF JSONParseThrows(rawBody) THEN "invalid" ELSE "parsed"

ParseBody ==
  /\ pc = "parse"
  /\ IF ParseOutcome(request.body) = "invalid"
       THEN /\ Return(ErrorJson(400, "Invalid JSON body"))
            /\ product' = product
       ELSE /\ product' = Some(JSONParse(request.body))
            /\ pc' = IF variant = "part_001" THEN "guard" ELSE "create"
            /\ response' = response
  /\ UNCHANGED <<variant, request, originId, productId, sizeAttribute, idx,
                 calls, catalog, parked>>

(***************************************************************************)
(* part_001: the idempotency guard.                                        *)
(***************************************************************************)
\* Array.prototype.find, given the predicate's value on each element: the
\* index of the first element satisfying it, or 0
FindIndex(hits) ==
  IF \E i \in 1..Len(hits) : hits[i]
    THEN CHOOSE i \in 1..Len(hits) :
           hits[i] /\ \A j \in 1..(i - 1) : ~hits[j]
    ELSE 0

IsOriginMeta(meta) == meta.key = "origin_id"

\* product.meta_data?.find(meta => meta.key === 'origin_id')?.value
OriginIdOf(p) ==
  IF ~IsSome(p.meta_data) THEN None
  ELSE LET m == Val(p.meta_data)
           i == FindIndex([k \in 1..Len(m) |-> IsOriginMeta(m[k])])
       IN IF i = 0 THEN None ELSE Val(p.meta_data)[i].value

\* a bug: originId === undefined, which lets an empty value through
MissingOriginIdUndefinedOnly(o) == ~IsSome(o)

\* !originId
MissingOriginId(o) == ~IsSome(o) \/ Val(o) = ""

IdempotencyGuard ==
  /\ pc = "guard"
  /\ IF Val(product).kind = "null"
       THEN /\ Throw
            /\ originId' = originId
       ELSE LET o == OriginIdOf(Val(product))
            IN IF MissingOriginId(o)
                 THEN /\ Return(ErrorJson(400, "Missing origin_id in meta_data"))
                      /\ originId' = originId
                 ELSE /\ pc' = "check"
                      /\ originId' = o
                      /\ response' = response
  /\ UNCHANGED <<variant, request, product, productId, sizeAttribute, idx,
                 calls, catalog, parked>>

\* what axios.get can end with
GetOutcomes ==
  {[ok |-> TRUE, data |-> l, error |-> TypeError] : l \in ExistingLists}
    \cup {[ok |-> FALSE, data |-> <<>>, error |-> e] : e \in AxiosErrors}

\* a bug: the answer of the existence query is not looked at
ExistenceDecisionNeverSkips(out) == IF ~out.ok THEN "error" ELSE "create"

\* a bug: a failed existence query is taken for "no such product"
ExistenceDecisionIgnoresError(out) ==
  IF out.ok /\ Len(out.data) > 0 THEN "skip" ELSE "create"

\* the try block around the existence query: "error" (the catch), "skip"
\* (existingProducts.length > 0) or "create" (fall through)
ExistenceDecision(out) ==
  IF ~out.ok THEN "error"
  ELSE IF Len(out.data) > 0 THEN "skip"
  ELSE "create"

\* the identifier the skip response carries: existingProducts[0].id
ExistingProductId(data) == data[1].id

\* the existence query and what follows it, the query ending with one of outs
ExistenceCheckWith(outs) ==
  /\ pc = "check"
  /\ \E out \in outs :
       /\ calls' = Append(calls, Call("GET", QueryUrl(Val(originId)), None, out))
       /\ LET d == ExistenceDecision(out)
          IN IF d = "error"
               THEN Return(ErrorJson(500, "Failed to verify existing products"))
             ELSE IF d = "skip"
               THEN Return(Json(200, None, Some(ExistingProductId(out.data)),
                                Some("Product already exists. Skipping creation."),
                                None, None, None))
             ELSE /\ pc' = "create"
                  /\ response' = response
  /\ UNCHANGED <<variant, request, product, originId, productId, sizeAttribute,
                 idx, catalog, parked>>

\* the target catalog holds products this behaviour does not know of: the
\* query answers with any list
ExistenceCheck == ExistenceCheckWith(GetOutcomes)

(***************************************************************************)
(* Payload transformation and product creation.                            *)
(***************************************************************************)
\* a bug: visible: attr.visible || true, which turns false into true
TransformAttributeVisibleOr(attr) ==
  [id |-> attr.id, name |-> attr.name, slug |-> attr.slug,
   position |-> IF IsSome(attr.position) /\ Val(attr.position) # 0
                  THEN Val(attr.position) ELSE 0,
   visible |-> TRUE,
   variation |-> IF IsSome(attr.variation) THEN Val(attr.variation) ELSE TRUE,
   options |-> attr.options]

\* position: attr.position || 0, visible: attr.visible ?? true,
\* variation: attr.variation ?? true, the rest passed through
TransformAttribute(attr) ==
  [id |-> attr.id, name |-> attr.name, slug |-> attr.slug,
   position |-> IF IsSome(attr.position) /\ Val(attr.position) # 0
                  THEN Val(attr.position) ELSE 0,
   visible |-> IF IsSome(attr.visible) THEN Val(attr.visible) ELSE TRUE,
   variation |-> IF IsSome(attr.variation) THEN Val(attr.variation) ELSE TRUE,
   options |-> attr.options]

\* product.attributes?.map(...)
TransformAttributes(attributes) ==
  IF ~IsSome(attributes) THEN None
  ELSE Some([i \in 1..Len(Val(attributes)) |->
               TransformAttribute(Val(attributes)[i])])

\* product.images.map(image => ({ src: image.src }))
ProcessedImagesSrc(images) ==
  [i \in 1..Len(Val(images)) |-> [src |-> Val(images)[i].src]]

\* a bug: the origin_id entries of the source are replaced, not kept
AugmentedMetaDataReplacing(p, o) ==
  Append(SelectSeq(Val(p.meta_data), LAMBDA m : m.key # "origin_id"),
         [key |-> "origin_id", value |-> o])

\* part_001: [...product.meta_data, { key: 'origin_id', value: originId }]
AugmentedMetaData(p, o) ==
  Append(Val(p.meta_data), Meta("origin_id", o))

\* the body of the product-creation call
Payload(v, p, o) ==
  IF v \in {"route_1", "route_3"} THEN p
  ELSE IF v = "route_2"
    THEN [name |-> p.name, status |-> p.status, price |-> p.price,
          regular_price |-> p.regular_price, images |-> p.images,
          attributes |-> p.attributes, meta_data |-> p.meta_data]
  ELSE [name |-> p.name, type |-> "variable",
        status |-> IF v = "part_001" THEN "draft" ELSE p.status,
        images |-> ProcessedImagesSrc(p.images),
        attributes |-> TransformAttributes(p.attributes),
        meta_data |-> IF v = "part_001" THEN Some(AugmentedMetaData(p, o))
                      ELSE p.meta_data]

\* what building the payload ends with: "throws" (a TypeError outside every
\* try block), "caught" (a TypeError inside the try block) or "ok"
PayloadOutcome(v, p) ==
  IF v \in {"route_1", "route_3"} THEN "ok"
  ELSE IF v = "route_2" THEN (IF p.kind = "null" THEN "caught" ELSE "ok")
  ELSE IF p.kind = "null" THEN "throws"
  ELSE IF ~IsSome(p.images) THEN "throws"
  ELSE "ok"

\* what axios.post can end with
PostOutcomes ==
  {[ok |-> TRUE, data |-> [id |-> i], error |-> TypeError] : i \in ProductIds}
    \cup {[ok |-> FALSE, data |-> [id |-> 0], error |-> e] : e \in AxiosErrors}

HasVariations(v) == v \in {"part_000", "part_001"}

\* a bug: attr.name === 'size', without toLowerCase
IsSizeNameCaseSensitive(attr) == Val(attr.name) = N_size

IsSizeName(attr) == ToLowerCase(Val(attr.name)) = N_size

\* product.attributes?.find(attr => attr.name.toLowerCase() === 'size'):
\* [kind |-> "found", index] , [kind |-> "none"] or, when an attribute tested
\* before any match has no name, [kind |-> "throws"]
FindSizeAttribute(p) ==
  IF ~IsSome(p.attributes) THEN [kind |-> "none", index |-> 0]
  ELSE LET as == Val(p.attributes)
           i == FindIndex([k \in 1..Len(as) |->
                             ~IsSome(as[k].name) \/ IsSizeName(as[k])])
       IN IF i = 0 THEN [kind |-> "none", index |-> 0]
          ELSE IF ~IsSome(as[i].name) THEN [kind |-> "throws", index |-> i]
          ELSE [kind |-> "found", index |-> i]

SuccessMessage(v) ==
  IF v = "route_2" THEN Some("Product created successfully")
  ELSE IF HasVariations(v) THEN Some("Product and variations created")
  ELSE None

\* a bug: the upstream error is not passed on
CreateFailedJsonWithoutDetails(v, e) ==
  ErrorJson(500, "Failed to replicate product")

\* the handler's response to a failed product-creation call
CreateFailedJson(v, e) == ReplicateFailedJson(e)

\* the code after a successful product creation, up to the first variation
\* call or the response
AfterCreate(out) ==
  IF ~HasVariations(variant)
    THEN /\ Return(SuccessJson(out.data.id, SuccessMessage(variant)))
         /\ UNCHANGED <<productId, sizeAttribute, idx>>
  ELSE LET f == FindSizeAttribute(Val(product))
       IN /\ productId' = Some(out.data.id)
          /\ IF f.kind = "throws"
               THEN /\ Return(ReplicateFailedJson(TypeError))
                    /\ UNCHANGED <<sizeAttribute, idx>>
             ELSE IF f.kind = "none"
               THEN /\ Return(SuccessJson(out.data.id, SuccessMessage(variant)))
                    /\ UNCHANGED <<sizeAttribute, idx>>
             ELSE LET a == Val(Val(product).attributes)[f.index]
                  IN /\ sizeAttribute' = Some(a)
                     /\ IF ~IsSome(a.options)
                          THEN /\ Return(ReplicateFailedJson(TypeError))
                               /\ idx' = idx
                        ELSE IF Len(Val(a.options)) = 0
                          THEN /\ Return(SuccessJson(out.data.id,
                                                     SuccessMessage(variant)))
                               /\ idx' = idx
                        ELSE /\ pc' = "variations"
                             /\ idx' = 1
                             /\ response' = response

\* what a successful products POST leaves in the target catalog
CatalogEntry(id, body) == [id |-> id, body |-> body]

\* the payload, the product-creation call ending with one of outs, and what
\* follows it
CreateProductWith(outs) ==
  /\ pc = "create"
  /\ LET p == Val(product)
         b == PayloadOutcome(variant, p)
     IN IF b = "throws"
          THEN /\ Throw
               /\ UNCHANGED <<productId, sizeAttribute, idx, calls, catalog>>
        ELSE IF b = "caught"
          THEN /\ Return(ReplicateFailedJson(TypeError))
               /\ UNCHANGED <<productId, sizeAttribute, idx, calls, catalog>>
        ELSE \E out \in outs :
               /\ calls' = Append(calls, Call("POST", ProductsUrl,
                                              Payload(variant, p, originId),
                                              out))
               /\ IF ~out.ok
                    THEN /\ Return(CreateFailedJson(variant, out.error))
                         /\ UNCHANGED <<productId, sizeAttribute, idx, catalog>>
                    ELSE /\ AfterCreate(out)
                         /\ catalog' =
                              Append(catalog,
                                     CatalogEntry(out.data.id,
                                                  Payload(variant, p, originId)))
  /\ UNCHANGED <<variant, request, product, originId, parked>>

CreateProduct == CreateProductWith(PostOutcomes)

(***************************************************************************)
(* Variation creation.                                                     *)
(***************************************************************************)
\* a bug: every label that holds "custom", whatever its case
IsCustomSizeAnyCase(size) == size \in {CustomPlain, CustomDollar, "custom size"}

IsCustomSize(size) == size \in {CustomPlain, CustomDollar}

\* a bug: the custom-size increment is left out
VariationPricesWithoutCustomIncrement(v, p, size) ==
  LET basePrice == ParseFloat(p.price)
  IN [regular_price |-> Some(ToFixed2(Plus(basePrice, Num(100 * Markup)))),
      sale_price |-> Some(ToFixed2(basePrice))]

\* the regular_price and sale_price of the variation for one option
\* (sale_price None: the request carries no such field)
VariationPrices(v, p, size) ==
  IF v = "part_001"
    THEN LET basePrice == ParseFloat(p.price)
             baseRegularPrice == Plus(basePrice, Num(100 * Markup))
             regularPrice == IF IsCustomSize(size)
                               THEN Plus(baseRegularPrice, Num(100 * Markup))
                               ELSE baseRegularPrice
             salePrice == IF IsCustomSize(size) THEN baseRegularPrice
                          ELSE basePrice
         IN [regular_price |-> Some(ToFixed2(regularPrice)),
             sale_price |-> Some(ToFixed2(salePrice))]
    ELSE [regular_price |-> IF IsSome(p.regular_price) THEN p.regular_price
                            ELSE Some(<<"0">>),
          sale_price |-> None]

\* a bug: the selection names the product's first attribute
VariationDataFirstAttribute(v, p, a, size) ==
  [regular_price |-> VariationPrices(v, p, size).regular_price,
   sale_price |-> VariationPrices(v, p, size).sale_price,
   attributes |-> <<[id |-> Val(p.attributes)[1].id, option |-> size]>>]

VariationData(v, p, a, size) ==
  LET prices == VariationPrices(v, p, size)
  IN [regular_price |-> prices.regular_price,
      sale_price |-> prices.sale_price,
      attributes |-> <<[id |-> a.id, option |-> size]>>]

\* what axios.post to the variations sub-resource can end with
VariationOutcomes ==
  {[ok |-> TRUE, data |-> [id |-> 900], error |-> TypeError]}
    \cup {[ok |-> FALSE, data |-> [id |-> 0], error |-> e] :
            e \in {x \in AxiosErrors : x.message # "Request failed with status code 400"}}

\* a bug: a failed variation call is made again
NextOptionRetrying(i, out) == IF out.ok THEN i + 1 ELSE i

\* for (const size of sizeAttribute.options): the option after the i-th,
\* whatever the call for the i-th ended with
NextOption(i, out) == i + 1

\* whether a failed variation call is caught inside the loop
CatchesVariationError(v) == v = "part_001"

CreateVariation ==
  /\ pc = "variations"
  /\ LET a == Val(sizeAttribute)
         size == Val(a.options)[idx]
     IN \E out \in VariationOutcomes :
          /\ calls' = Append(calls,
                             Call("POST", VariationsUrl(Val(productId)),
                                  VariationData(variant, Val(product), a, size),
                                  out))
          /\ IF ~out.ok /\ ~CatchesVariationError(variant)
               THEN /\ Return(ReplicateFailedJson(out.error))
                    /\ idx' = idx
             ELSE IF NextOption(idx, out) > Len(Val(a.options))
               THEN /\ Return(SuccessJson(Val(productId), SuccessMessage(variant)))
                    /\ idx' = idx
             ELSE /\ idx' = NextOption(idx, out)
                  /\ UNCHANGED <<pc, response>>
  /\ UNCHANGED <<variant, request, product, originId, productId, sizeAttribute,
                 catalog, parked>>

Next ==
  \/ VerifySignature
  \/ ParseBody
  \/ IdempotencyGuard
  \/ ExistenceCheck
  \/ CreateProduct
  \/ CreateVariation

Spec == Init /\ [][Next]_vars

(***************************************************************************)
(* Several deliveries to part_001 against one target catalog that holds    *)
(* nothing but what the deliveries create.                                 *)
(***************************************************************************)
\* whether a metadata list has an entry origin_id = x
MetaCarries(meta, x) ==
  /\ IsSome(meta)
  /\ \E k \in 1..Len(Val(meta)) : Val(meta)[k] = OriginMeta(x)

Carries(c, x) == MetaCarries(c.body.meta_data, x)

\* GET products?meta_key=origin_id&meta_value=x: the identifiers of every
\* product of the catalog whose metadata carries origin_id = x
CatalogMatches(cat, x) ==
  {cat[k].id : k \in {i \in 1..Len(cat) : Carries(cat[i], x)}}

\* the lists that hold each of ids once: the order of the answer is the
\* catalog's choice
Orderings(ids) ==
  {l \in [1..Cardinality(ids) -> {[id |-> i] : i \in ids}] :
     \A a, b \in 1..Cardinality(ids) : a # b => l[a] # l[b]}

\* what axios.get can end with on this catalog: a failure (of one kind, the
\* handler treats them alike), or every match
CatalogGetOutcomes(cat, x) ==
  {o \in GetOutcomes : ~o.ok /\ ~IsSome(o.error.response)}
    \cup {[ok |-> TRUE, data |-> l, error |-> TypeError] :
            l \in Orderings(CatalogMatches(cat, x))}

\* the catalog numbers the products it creates
FreshId(cat) == 501 + Len(cat)

\* what axios.post can end with on this catalog: a failure (of one kind), or
\* a new product
CatalogPostOutcomes(cat) ==
  {o \in PostOutcomes : ~o.ok /\ ~IsSome(o.error.response)}
    \cup {[ok |-> TRUE, data |-> [id |-> FreshId(cat)], error |-> TypeError]}

ExistenceCheckInCatalog ==
  /\ pc = "check"
  /\ ExistenceCheckWith(CatalogGetOutcomes(catalog, Val(originId)))

CreateProductInCatalog == CreateProductWith(CatalogPostOutcomes(catalog))

\* the locals of the invocation that runs
Locals ==
  [request |-> request, pc |-> pc, product |-> product, originId |-> originId,
   productId |-> productId, sizeAttribute |-> sizeAttribute, idx |-> idx,
   calls |-> calls, response |-> response]

\* the locals of an invocation that has just received req
FreshLocals(req) ==
  [request |-> req, pc |-> "verify", product |-> None, originId |-> None,
   productId |-> None, sizeAttribute |-> None, idx |-> 0, calls |-> <<>>,
   response |-> None]

Load(l) ==
  /\ request' = l.request
  /\ pc' = l.pc
  /\ product' = l.product
  /\ originId' = l.originId
  /\ productId' = l.productId
  /\ sizeAttribute' = l.sizeAttribute
  /\ idx' = l.idx
  /\ calls' = l.calls
  /\ response' = l.response

Finished(l) == l.pc \in {"done", "threw"}

\* every invocation of the behaviour; under SpecSequential in order of
\* arrival
Deliveries == Append(parked, Locals)

\* the products delivered: one with origin identifier X2, one with origin
\* identifier X1 that carries a second origin_id entry, X2
DeliveryProducts ==
  {Product(Str(P_10_00), None, BaseImages, Some(<<SizeAttr(<<"M">>)>>), m) :
     m \in {Some(<<OriginMeta("X2")>>),
            Some(<<OriginMeta("X1"), OriginMeta("X2")>>)}}

DeliveryRequests ==
  {Request(Some(HmacSha256Base64(WEBHOOK_SECRET, RawJson(d, "compact"))),
           Some("application/json"), None, RawJson(d, "compact")) :
     d \in DeliveryProducts}

InitDeliveries ==
  /\ variant = "part_001"
  /\ request \in DeliveryRequests
  /\ pc = "verify"
  /\ product = None
  /\ originId = None
  /\ productId = None
  /\ sizeAttribute = None
  /\ idx = 0
  /\ calls = <<>>
  /\ response = None
  /\ catalog = <<>>
  /\ parked = <<>>

\* the event loop runs another invocation only while the one that runs stands
\* at an await (req.text(), axios.get, axios.post) or has ended
AtAwait(l) == l.pc \notin {"parse", "guard"}

\* POST is invoked again with another delivery
Invoke ==
  /\ \E req \in DeliveryRequests : Load(FreshLocals(req))
  /\ parked' = Deliveries
  /\ UNCHANGED <<variant, catalog>>

\* another webhook is delivered while the invocation that runs awaits
Arrive ==
  /\ AtAwait(Locals)
  /\ Len(Deliveries) < MaxInFlight
  /\ Invoke

\* sequential deliveries: the next one arrives when the last has ended
Redeliver ==
  /\ Finished(Locals)
  /\ Len(Deliveries) < MaxDeliveries
  /\ Invoke

\* an invocation suspended at an await goes on, the one that ran waits
Resume ==
  /\ AtAwait(Locals)
  /\ \E i \in 1..Len(parked) :
       /\ ~Finished(parked[i])
       /\ Load(parked[i])
       /\ parked' = [parked EXCEPT ![i] = Locals]
  /\ UNCHANGED <<variant, catalog>>

NextSequential ==
  \/ VerifySignature
  \/ ParseBody
  \/ IdempotencyGuard
  \/ ExistenceCheckInCatalog
  \/ CreateProductInCatalog
  \/ CreateVariation
  \/ Redeliver

SpecSequential == InitDeliveries /\ [][NextSequential]_vars

NextConcurrent ==
  \/ VerifySignature
  \/ ParseBody
  \/ IdempotencyGuard
  \/ ExistenceCheckInCatalog
  \/ CreateProductInCatalog
  \/ CreateVariation
  \/ Arrive
  \/ Resume

SpecConcurrent == InitDeliveries /\ [][NextConcurrent]_vars

(***************************************************************************)
(* Vocabulary of the properties.                                           *)
(***************************************************************************)
Returned == pc = "done"
Status == Val(response).status
Body == request.body
Signed == request.signature = Some(HmacSha256Base64(WEBHOOK_SECRET, Body))
Verified == pc # "verify"

IsProductCall(c) == c.method = "POST" /\ c.url.kind = "products"
IsVariationCall(c) == c.method = "POST" /\ c.url.kind = "variations"
IsExistenceCall(c) == c.method = "GET"

ProductCalls == SelectSeq(calls, IsProductCall)
VariationCalls == SelectSeq(calls, IsVariationCall)
ExistenceCalls == SelectSeq(calls, IsExistenceCall)
NoCreationCall == Len(ProductCalls) = 0 /\ Len(VariationCalls) = 0

\* the handler went on to JSON.parse: it stands before it, has a parsed
\* product, or has answered that the body is no JSON
WentOnToParsing ==
  \/ pc = "parse"
  \/ IsSome(product)
  \/ Returned /\ Val(response).error = Some("Invalid JSON body")

(***************************************************************************)
(* C1.  Every handler answers a request whose signature header is absent   *)
(* or differs from the digest of the raw body with 401 and makes no        *)
(* outbound call, whatever the other headers and the body are.             *)
(* Violated by route_2: its test-request branch answers 200 before the     *)
(* signature is looked at.                                                 *)
(***************************************************************************)
C1_UnsignedAnswered401 ==
  (Verified /\ ~Signed) =>
     /\ Returned
     /\ Status = 401
     /\ calls = <<>>

\* what does hold: no unsigned request causes an outbound call, and outside
\* route_2's test-request branch the answer is 401
C1_UnsignedNeverCalls ==
  /\ ~Signed => calls = <<>>
  /\ (Verified /\ ~Signed /\ ~IsTestRequest(variant, request)) =>
        (Returned /\ Status = 401)

(***************************************************************************)
(* C2.  The acceptance decision of the signature check equals the          *)
(* reference decision: once the check has run, the handler has gone on to  *)
(* JSON parsing if and only if the signature header equals the base64      *)
(* HMAC-SHA256 of the raw body under the shared secret, and has answered   *)
(* 401 otherwise.  Stated for every request that reaches the check (all    *)
(* requests of route_1, route_3, part_000 and part_001; in route_2 those   *)
(* that its test-request branch does not answer first).                    *)
(***************************************************************************)
C2_AcceptIffDigestOfRawBody ==
  (Verified /\ ~IsTestRequest(variant, request)) =>
     /\ WentOnToParsing <=> Signed
     /\ ~WentOnToParsing => (Returned /\ Status = 401)

\* a correctly signed body in the layout JSON.stringify would not produce
\* has been accepted, and a header signing the other layout of the same
\* document has been rejected
C2_Witness ==
  \/ /\ Body.json /\ Body.layout = "pretty" /\ Signed /\ IsSome(product)
  \/ /\ Body.json
     /\ request.signature
          = Some(HmacSha256Base64(WEBHOOK_SECRET, RawJson(Body.doc, "pretty")))
     /\ Body.layout = "compact"
     /\ Returned /\ Status = 401

(***************************************************************************)
(* C3.  A body that is no JSON causes no outbound call, and once its       *)
(* signature has been accepted the handler answers 400.                    *)
(***************************************************************************)
C3_NonJsonAnswered400 ==
  ~Body.json =>
     /\ calls = <<>>
     /\ (Signed /\ ~IsTestRequest(variant, request) /\ pc \notin {"verify", "parse"})
          => (Returned /\ Status = 400)

C3_Witness ==
  ~Body.json /\ Signed /\ Returned /\ Status = 400 /\ calls = <<>>

(***************************************************************************)
(* C4.  part_001: when the existence query answers with a non-empty list,  *)
(* the handler answers 200 with the identifier of the first product of the *)
(* list and makes no creation call.                                        *)
(***************************************************************************)
ExistenceAnswered ==
  Len(ExistenceCalls) > 0 /\ ExistenceCalls[1].out.ok

C4_ExistingProductSkipsCreation ==
  (variant = "part_001" /\ ExistenceAnswered
     /\ Len(ExistenceCalls[1].out.data) > 0) =>
       /\ Returned
       /\ Status = 200
       /\ Val(response).productId = Some(ExistenceCalls[1].out.data[1].id)
       /\ NoCreationCall

\* a list of two different products: the first one is reported
C4_Witness ==
  /\ variant = "part_001" /\ ExistenceAnswered
  /\ Len(ExistenceCalls[1].out.data) = 2
  /\ ExistenceCalls[1].out.data[1].id # ExistenceCalls[1].out.data[2].id
  /\ Returned

(***************************************************************************)
(* C5.  part_000 and part_001: after a successful product creation, every  *)
(* option of the size attribute gets its variation call whichever of the   *)
(* calls fail, and the response is the success envelope with the product   *)
(* identifier.  Violated by part_000, whose loop has no catch of its own:  *)
(* the first failed variation call ends the request with 500.              *)
(***************************************************************************)
HasSizeOptions == IsSome(sizeAttribute) /\ IsSome(Val(sizeAttribute).options)

C5_FailedVariationsDoNotAbort ==
  (HasVariations(variant) /\ HasSizeOptions /\ Returned) =>
     /\ Len(VariationCalls) = Len(Val(Val(sizeAttribute).options))
     /\ Status = 200
     /\ Val(response).success = Some(TRUE)
     /\ Val(response).productId = productId

\* the same for part_001 alone, where it holds
C5_HoldsInPart001 ==
  variant = "part_001" => C5_FailedVariationsDoNotAbort

(***************************************************************************)
(* C6.  Every handler: when the product-creation call fails, the handler   *)
(* answers 500 with the error's message and the upstream response body,    *)
(* and no variation call is made.                                          *)
(***************************************************************************)
CreationFailed == Len(ProductCalls) > 0 /\ ~ProductCalls[1].out.ok

C6_CreationFailureAnswered500 ==
  CreationFailed =>
     LET e == ProductCalls[1].out.error
     IN /\ Returned
        /\ Status = 500
        /\ Val(response).details = Some(e.message)
        /\ Val(response).response
             = (IF IsSome(e.response) THEN Some(Val(e.response).data) ELSE None)
        /\ Len(VariationCalls) = 0
        /\ Len(ProductCalls) = 1

\* a non-2xx answer to a product that has size options
C6_Witness ==
  /\ CreationFailed
  /\ IsSome(ProductCalls[1].out.error.response)
  /\ variant = "part_000"
  /\ Val(product) = BaseProduct
  /\ Returned

(***************************************************************************)
(* C7.  part_001: when the existence query fails, the handler answers 500  *)
(* and makes neither a product-creation nor a variation-creation call.     *)
(***************************************************************************)
ExistenceFailed == Len(ExistenceCalls) > 0 /\ ~ExistenceCalls[1].out.ok

C7_ExistenceFailureAborts ==
  (variant = "part_001" /\ ExistenceFailed) =>
     /\ Returned
     /\ Status = 500
     /\ NoCreationCall
     /\ Len(calls) = 1

C7_Witness ==
  variant = "part_001" /\ ExistenceFailed /\ Returned /\ Status = 500

(***************************************************************************)
(* C8.  part_001, correctly signed JSON product: without an entry under    *)
(* origin_id in meta_data the handler answers 400 and makes no outbound    *)
(* call; with such an entry it does not answer 400 for a missing origin    *)
(* identifier.                                                             *)
(* The second half is violated: an origin_id entry whose value is empty    *)
(* (or absent) is answered 400 all the same.                               *)
(***************************************************************************)
GuardPassed ==
  /\ variant = "part_001"
  /\ IsSome(product)
  /\ Val(product).kind = "object"
  /\ pc # "guard"

HasOriginEntry ==
  /\ IsSome(Val(product).meta_data)
  /\ \E i \in 1..Len(Val(Val(product).meta_data)) :
       Val(Val(product).meta_data)[i].key = "origin_id"

AnsweredMissingOrigin ==
  /\ Returned
  /\ Status = 400
  /\ Val(response).error = Some("Missing origin_id in meta_data")

C8_OriginEntryDecides400 ==
  GuardPassed =>
     /\ ~HasOriginEntry => (AnsweredMissingOrigin /\ calls = <<>>)
     /\ HasOriginEntry => ~AnsweredMissingOrigin

\* the first entry under origin_id carries a non-empty value
HasOriginValue ==
  /\ HasOriginEntry
  /\ LET m == Val(Val(product).meta_data)
         i == CHOOSE k \in 1..Len(m) :
                m[k].key = "origin_id" /\ \A j \in 1..(k - 1) : m[j].key # "origin_id"
     IN m[i].value # None /\ m[i].value # Some("")

\* C8 as amended: the handler answers 400, without any outbound call,
\* exactly when meta_data has no origin_id entry or the first such entry has
\* an empty or absent value
C8_OriginValueDecides400 ==
  GuardPassed =>
     /\ ~HasOriginValue => (AnsweredMissingOrigin /\ calls = <<>>)
     /\ HasOriginValue => ~AnsweredMissingOrigin

\* an empty first origin_id entry followed by a filled one: answered 400
C8_Witness ==
  /\ GuardPassed
  /\ Val(product).meta_data
       = Some(<<Meta("origin_id", Some("")), OriginMeta("X2")>>)
  /\ AnsweredMissingOrigin

(***************************************************************************)
(* C9.  part_001, blank regular_price, numeric price p, option             *)
(* "Custom Size (+40)": the variation request has regular_price = p + 40   *)
(* and sale_price = p (for 10.00: "50.00" and "10.00").                    *)
(* Violated: the custom option is priced 40 above the other options, whose *)
(* regular price is already p + 40.                                        *)
(***************************************************************************)
\* the variation calls of part_001 for the option "Custom Size (+40)" of a
\* product with a blank regular_price and a numeric price of at most two
\* fraction digits
CustomPlainCalls ==
  {i \in 1..Len(VariationCalls) :
     /\ variant = "part_001"
     /\ Val(product).regular_price = Some(Blank)
     /\ ~ParseFloat(Val(product).price).nan
     /\ ParseFloat(Val(product).price).m = 0
     /\ VariationCalls[i].body.attributes[1].option = CustomPlain}

C9_CustomSizeRegularIsPricePlus40 ==
  \A i \in CustomPlainCalls :
    LET p == ParseFloat(Val(product).price)
        sent == VariationCalls[i].body
    IN /\ ParseFloat(sent.regular_price) = Plus(p, Num(4000))
       /\ ParseFloat(sent.sale_price) = p
       /\ Val(product).price = Some(P_10_00) =>
            (sent.regular_price = Some(P_50_00) /\ sent.sale_price = Some(P_10_00))

\* C9 as amended: regular_price = p + 80 and sale_price = p + 40, both with
\* two decimals (for 10.00: "90.00" and "50.00"; for 9.5: "89.50", "49.50")
C9_CustomSizeRegularIsPricePlus80 ==
  \A i \in CustomPlainCalls :
    LET p == ParseFloat(Val(product).price)
        sent == VariationCalls[i].body
    IN /\ ParseFloat(sent.regular_price) = Plus(p, Num(8000))
       /\ ParseFloat(sent.sale_price) = Plus(p, Num(4000))
       /\ Len(Val(sent.regular_price)) >= 4
       /\ Val(sent.regular_price)[Len(Val(sent.regular_price)) - 2] = "."
       /\ Val(sent.sale_price)[Len(Val(sent.sale_price)) - 2] = "."
       /\ Val(product).price = Some(P_10_00) =>
            (sent.regular_price = Some(P_90_00) /\ sent.sale_price = Some(P_50_00))
       /\ Val(product).price = Some(P_9_5) =>
            /\ sent.regular_price = Some(<<"8", "9", ".", "5", "0">>)
            /\ sent.sale_price = Some(<<"4", "9", ".", "5", "0">>)

C9_Witness ==
  /\ CustomPlainCalls # {}
  /\ Val(product).price = Some(P_10_00)
  /\ Returned /\ Status = 200

(***************************************************************************)
(* C10.  part_000 and part_001, regular_price r set and not blank, numeric *)
(* price, option that is no custom size: the variation request has         *)
(* regular_price = r and sale_price = the source price (for price 10.00,   *)
(* regular_price "15.00", option "M": "15.00" and "10.00").                *)
(* Violated by both: part_001 sends price + 40 whatever r is, part_000     *)
(* sends r and no sale_price at all.                                       *)
(***************************************************************************)
PlainOptionCalls ==
  {i \in 1..Len(VariationCalls) :
     /\ HasVariations(variant)
     /\ IsSome(Val(product).regular_price)
     /\ Val(product).regular_price # Some(Blank)
     /\ ~ParseFloat(Val(product).price).nan
     /\ VariationCalls[i].body.attributes[1].option \in {"S", "M", "L", "XL"}}

C10_RegularPricePassedThrough ==
  \A i \in PlainOptionCalls :
    LET sent == VariationCalls[i].body
    IN /\ ParseFloat(sent.regular_price) = ParseFloat(Val(product).regular_price)
       /\ IsSome(sent.sale_price)
       /\ ParseFloat(sent.sale_price) = ParseFloat(Val(product).price)

\* what each variant does send for such an option
C10_WhatIsSent ==
  \A i \in PlainOptionCalls :
    LET sent == VariationCalls[i].body
    IN IF variant = "part_001"
         THEN /\ sent.regular_price
                   = Some(ToFixed2(Plus(ParseFloat(Val(product).price),
                                        Num(4000))))
              /\ sent.sale_price = Some(ToFixed2(ParseFloat(Val(product).price)))
         ELSE /\ sent.regular_price = Val(product).regular_price
              /\ sent.sale_price = None

(***************************************************************************)
(* C11.  part_000 and part_001: the variation calls of one request are     *)
(* made one after another, exactly one per option of the size attribute,   *)
(* their option labels being the options list in source order.             *)
(* Violated by part_000 (see C5): after the first failed variation call    *)
(* the remaining options get no call.                                      *)
(***************************************************************************)
\* the option labels of the variation calls made so far, in call order
CalledOptions ==
  [i \in 1..Len(VariationCalls) |-> VariationCalls[i].body.attributes[1].option]

C11_OneCallPerOptionInOrder ==
  /\ (HasVariations(variant) /\ HasSizeOptions /\ Returned) =>
        CalledOptions = Val(Val(sizeAttribute).options)
  /\ (HasVariations(variant) /\ HasSizeOptions) =>
        /\ Len(CalledOptions) <= Len(Val(Val(sizeAttribute).options))
        /\ CalledOptions
             = SubSeq(Val(Val(sizeAttribute).options), 1, Len(CalledOptions))

\* what holds in both: the calls made are a prefix of the options list, each
\* made after the one before it has ended; part_001 ends with the whole list
C11_CallsArePrefixOfOptions ==
  (HasVariations(variant) /\ HasSizeOptions) =>
     /\ Len(CalledOptions) <= Len(Val(Val(sizeAttribute).options))
     /\ CalledOptions
          = SubSeq(Val(Val(sizeAttribute).options), 1, Len(CalledOptions))
     /\ pc = "variations" => Len(CalledOptions) = idx - 1
     /\ (variant = "part_001" /\ Returned) =>
          CalledOptions = Val(Val(sizeAttribute).options)

(***************************************************************************)
(* C12.  part_000 and part_001: the attributes of the payload sent to      *)
(* product creation are the source attributes index by index, with id,     *)
(* name, slug and options unchanged, position 0 / visible true /           *)
(* variation true where the source has none, and the source's value where  *)
(* it has one.                                                             *)
(***************************************************************************)
SentPayload == ProductCalls[1].body

C12_AttributesDefaultFilled ==
  (HasVariations(variant) /\ Len(ProductCalls) > 0
     /\ IsSome(Val(product).attributes)) =>
    LET src == Val(Val(product).attributes)
        out == Val(SentPayload.attributes)
    IN /\ IsSome(SentPayload.attributes)
       /\ Len(out) = Len(src)
       /\ \A i \in 1..Len(src) :
            /\ out[i].id = src[i].id
            /\ out[i].name = src[i].name
            /\ out[i].slug = src[i].slug
            /\ out[i].options = src[i].options
            /\ out[i].position
                 = (IF src[i].position = None THEN 0 ELSE Val(src[i].position))
            /\ out[i].visible
                 = (IF src[i].visible = None THEN TRUE ELSE Val(src[i].visible))
            /\ out[i].variation
                 = (IF src[i].variation = None THEN TRUE
                    ELSE Val(src[i].variation))

\* an attribute with visible and variation false and a position, followed by
\* one that has none of the three
C12_Witness ==
  /\ HasVariations(variant) /\ Len(ProductCalls) > 0
  /\ Val(product) = BaseProduct
  /\ Val(SentPayload.attributes)[1].visible = FALSE
  /\ Val(SentPayload.attributes)[2].visible = TRUE

(***************************************************************************)
(* C14.  part_000 and part_001, after a successful product creation:       *)
(* variation calls are made if and only if the product declares an         *)
(* attribute named "size" (in any case) with a non-empty options list;     *)
(* without such an attribute no variation call is made and the response is *)
(* the success envelope with the product identifier.                       *)
(* Violated: only the first attribute named "size" counts, and an          *)
(* attribute without a name before it, or a size attribute without an      *)
(* options list, ends the request with 500.                                *)
(***************************************************************************)
ProductCreated == Len(ProductCalls) > 0 /\ ProductCalls[1].out.ok

SourceAttributes ==
  IF IsSome(Val(product).attributes) THEN Val(Val(product).attributes) ELSE <<>>

NamedSize(a) == a.name # None /\ ToLowerCase(Val(a.name)) = <<"s", "i", "z", "e">>

DeclaresSizeWithOptions ==
  \E i \in 1..Len(SourceAttributes) :
    /\ NamedSize(SourceAttributes[i])
    /\ SourceAttributes[i].options # None
    /\ Len(Val(SourceAttributes[i].options)) > 0

AnsweredSuccess ==
  /\ Returned
  /\ Status = 200
  /\ Val(response).success = Some(TRUE)
  /\ Val(response).productId = Some(ProductCalls[1].out.data.id)

C14_VariationsIffSizeDeclared ==
  (HasVariations(variant) /\ ProductCreated /\ Returned) =>
     /\ Len(VariationCalls) > 0 <=> DeclaresSizeWithOptions
     /\ ~DeclaresSizeWithOptions => AnsweredSuccess

\* the attributes at which the search for the size attribute stops: the
\* first that is named size or has no name
StopsSearch(i) ==
  /\ i \in 1..Len(SourceAttributes)
  /\ NamedSize(SourceAttributes[i]) \/ SourceAttributes[i].name = None
  /\ \A j \in 1..(i - 1) :
       ~NamedSize(SourceAttributes[j]) /\ SourceAttributes[j].name # None

\* C14 as amended: variation calls are made exactly when the first attribute
\* named size comes before any attribute without a name and has a non-empty
\* options list; with no attribute named size (none without a name either),
\* or with that first size attribute's options list empty, no call is made
\* and the response is the success envelope; with a nameless attribute met
\* first, or a size attribute without options list, no call is made and the
\* response is 500
C14_VariationsIffFirstSizeHasOptions ==
  (HasVariations(variant) /\ ProductCreated /\ Returned) =>
     /\ Len(VariationCalls) > 0 <=>
          \E i \in 1..Len(SourceAttributes) :
            /\ StopsSearch(i)
            /\ NamedSize(SourceAttributes[i])
            /\ SourceAttributes[i].options # None
            /\ Len(Val(SourceAttributes[i].options)) > 0
     /\ ((\A i \in 1..Len(SourceAttributes) : ~StopsSearch(i))
          \/ (\E i \in 1..Len(SourceAttributes) :
                /\ StopsSearch(i)
                /\ NamedSize(SourceAttributes[i])
                /\ SourceAttributes[i].options = Some(<<>>)))
        => (Len(VariationCalls) = 0 /\ AnsweredSuccess)
     /\ (\E i \in 1..Len(SourceAttributes) :
           /\ StopsSearch(i)
           /\ \/ SourceAttributes[i].name = None
              \/ SourceAttributes[i].options = None)
        => (Len(VariationCalls) = 0 /\ Status = 500)

\* a first size attribute with no option, a second one with an option:
\* no variation call, success
C14_Witness ==
  /\ HasVariations(variant) /\ ProductCreated /\ Returned
  /\ Len(SourceAttributes) = 2
  /\ SourceAttributes[1] = SizeAttr(<<>>)
  /\ NamedSize(SourceAttributes[2])
  /\ Len(VariationCalls) = 0
  /\ AnsweredSuccess

(***************************************************************************)
(* C15.  part_001: the meta_data sent to product creation is the source's  *)
(* meta_data, every entry at its place, followed by one entry              *)
(* {key: origin_id, value: the extracted origin identifier}.               *)
(***************************************************************************)
C15_OriginEntryAppended ==
  (variant = "part_001" /\ Len(ProductCalls) > 0) =>
    LET src == Val(Val(product).meta_data)
        out == Val(SentPayload.meta_data)
        k == CHOOSE i \in 1..Len(src) :
               src[i].key = "origin_id" /\ \A j \in 1..(i - 1) : src[j].key # "origin_id"
    IN /\ Len(out) = Len(src) + 1
       /\ \A i \in 1..Len(src) : out[i] = src[i]
       /\ out[Len(out)].key = "origin_id"
       /\ out[Len(out)].value = src[k].value

\* a source list with two origin_id entries of different values
C15_Witness ==
  /\ variant = "part_001" /\ Len(ProductCalls) > 0
  /\ Val(product).meta_data = Some(<<OriginMeta("X1"), OriginMeta("X2")>>)
  /\ Len(Val(SentPayload.meta_data)) = 3

(***************************************************************************)
(* C16.  part_000 and part_001: every variation request goes to the        *)
(* variations sub-resource of the product identifier that this request's   *)
(* product creation answered with, and carries exactly one attribute       *)
(* selection: the id of the size attribute and the label of the option.    *)
(***************************************************************************)
C16_VariationTargetsCreatedProduct ==
  \A i \in 1..Len(VariationCalls) :
    LET c == VariationCalls[i]
        k == CHOOSE j \in 1..Len(SourceAttributes) : StopsSearch(j)
    IN /\ ProductCreated
       /\ c.url = [kind |-> "variations", base |-> wcApiUrl,
                   productId |-> ProductCalls[1].out.data.id]
       /\ Len(c.body.attributes) = 1
       /\ c.body.attributes[1].id = SourceAttributes[k].id
       /\ c.body.attributes[1].option = Val(SourceAttributes[k].options)[i]

\* the size attribute is the second attribute of the product
C16_Witness ==
  /\ Len(VariationCalls) >= 2
  /\ Val(product) = BaseProduct
  /\ ProductCalls[1].out.data.id = 502

(***************************************************************************)
(* C17.  No retries: one request makes at most one existence query, at     *)
(* most one product-creation call and at most one variation call for each  *)
(* option of the size attribute, whether the calls succeed or fail.        *)
(***************************************************************************)
C17_NoRetries ==
  /\ Len(ExistenceCalls) <= 1
  /\ Len(ProductCalls) <= 1
  /\ Len(VariationCalls) > 0 => HasSizeOptions
  /\ HasSizeOptions =>
       /\ Len(VariationCalls) <= Len(Val(Val(sizeAttribute).options))
       /\ \A i \in 1..Len(VariationCalls) :
            VariationCalls[i].body.attributes[1].option
              = Val(Val(sizeAttribute).options)[i]
  /\ variant # "part_001" => Len(ExistenceCalls) = 0
  /\ ~HasVariations(variant) => Len(VariationCalls) = 0

\* a first variation call that failed, followed by the call for the next option
C17_Witness ==
  /\ variant = "part_001"
  /\ Len(VariationCalls) >= 2
  /\ ~VariationCalls[1].out.ok
  /\ Len(ExistenceCalls) = 1

(***************************************************************************)
(* C18.  Every handler: a request answered with an error envelope (400,    *)
(* 401, 500) has created no product; a successful product creation is      *)
(* always followed by the success response, also when a later step fails.  *)
(* Violated by part_000 (a failed variation call, see C5) and by both      *)
(* part_000 and part_001 when the search for the size attribute or the     *)
(* loop over its options throws.                                           *)
(***************************************************************************)
C18_ErrorMeansNothingCreated ==
  (Returned /\ Status \in {400, 401, 500}) => ~ProductCreated

\* the same for part_001 on products whose attributes all have a name and an
\* options list, where it holds
C18_HoldsInPart001WhenWellFormed ==
  (variant = "part_001"
     /\ IsSome(product) /\ Val(product).kind = "object"
     /\ \A i \in 1..Len(SourceAttributes) :
          SourceAttributes[i].name # None /\ SourceAttributes[i].options # None)
    => C18_ErrorMeansNothingCreated

(***************************************************************************)
(* C20.  part_000 and part_001: every invocation with a correctly signed   *)
(* body ends by returning one JSON response with status 200, 400 or 500,   *)
(* whatever the body parses to; none ends in an unhandled exception.       *)
(* Violated: a body that parses to null, or a product without images,      *)
(* throws a TypeError outside every try block.                             *)
(***************************************************************************)
C20_AlwaysAnEnvelope ==
  (HasVariations(variant) /\ Signed) =>
     /\ pc # "threw"
     /\ Returned => Status \in {200, 400, 500}

\* what holds: the only way out other than a response is that TypeError
C20_ThrowsOnlyWithoutImages ==
  (HasVariations(variant) /\ pc = "threw") =>
     \/ Val(product).kind = "null"
     \/ Val(product).images = None

(***************************************************************************)
(* Vocabulary of the properties about several deliveries.                  *)
(***************************************************************************)
Origins == {"X1", "X2"}

ProductCallsOf(d) == SelectSeq(d.calls, IsProductCall)
ExistenceCallsOf(d) == SelectSeq(d.calls, IsExistenceCall)

DeliveredFor(d, x) == d.originId = Some(x)
CreatedBy(d) ==
  \E k \in 1..Len(ProductCallsOf(d)) : ProductCallsOf(d)[k].out.ok
CreatedIdOf(d) == ProductCallsOf(d)[1].out.data.id
QueryAnswered(d) ==
  Len(ExistenceCallsOf(d)) > 0 /\ ExistenceCallsOf(d)[1].out.ok

\* a later delivery for x, its query answered, after one that created
Redelivered(i, j, x) ==
  /\ i < j
  /\ DeliveredFor(Deliveries[i], x) /\ CreatedBy(Deliveries[i])
  /\ DeliveredFor(Deliveries[j], x) /\ QueryAnswered(Deliveries[j])

\* the later delivery creates nothing and answers with the first one's product,
\* and the catalog holds one product carrying x
SkippedTo(i, j, x) ==
  /\ Len(ProductCallsOf(Deliveries[j])) = 0
  /\ Finished(Deliveries[j]) =>
       /\ Deliveries[j].pc = "done"
       /\ Val(Deliveries[j].response).productId
            = Some(CreatedIdOf(Deliveries[i]))
  /\ Cardinality(CatalogMatches(catalog, x)) = 1

\* C13 as stated: under SpecSequential (the catalog answers with every product
\* carrying origin_id = X), once a delivery for X has created a product, every
\* later delivery for X whose query is answered makes no creation call and
\* answers with the identifier of that product, and the catalog holds exactly
\* one product carrying X.
C13_RedeliveryIdempotent ==
  \A x \in Origins : \A i, j \in 1..Len(Deliveries) :
    Redelivered(i, j, x) => SkippedTo(i, j, x)

\* every delivered product that carries origin_id = x has x as its origin
\* identifier (the value of its first origin_id entry)
OnlyOwnOrigin(x) ==
  \A k \in 1..Len(Deliveries) :
    LET body == JSONParse(Deliveries[k].request.body)
    IN MetaCarries(body.meta_data, x) => OriginIdOf(body) = Some(x)

\* C13, amended: the same, provided that no delivered product carries
\* origin_id = X in an entry other than the one that makes X its origin
\* identifier.
C13_RedeliveryIdempotentForOwnOrigin ==
  \A x \in Origins : \A i, j \in 1..Len(Deliveries) :
    (OnlyOwnOrigin(x) /\ Redelivered(i, j, x)) => SkippedTo(i, j, x)

\* two re-deliveries after a creation, both answered with the product's id
C13_Witness ==
  \E x \in Origins :
    /\ OnlyOwnOrigin(x)
    /\ Len(Deliveries) = 3
    /\ CreatedBy(Deliveries[1])
    /\ \A j \in {2, 3} :
         /\ Redelivered(1, j, x)
         /\ Deliveries[j].pc = "done"
         /\ Val(Deliveries[j].response).productId
              = Some(CreatedIdOf(Deliveries[1]))

\* the deliveries for x that created a product
CreatedFor(x) ==
  {k \in 1..Len(Deliveries) :
     DeliveredFor(Deliveries[k], x) /\ CreatedBy(Deliveries[k])}

\* the deliveries for x whose existence query was answered with an empty list
AnsweredEmptyFor(x) ==
  {k \in 1..Len(Deliveries) :
     /\ DeliveredFor(Deliveries[k], x)
     /\ QueryAnswered(Deliveries[k])
     /\ Len(ExistenceCallsOf(Deliveries[k])[1].out.data) = 0}

\* C19 as stated: under SpecConcurrent (invocations interleave at their
\* awaits), at most one invocation per origin identifier creates a product.
C19_AtMostOneProductPerOrigin ==
  \A x \in Origins : Cardinality(CreatedFor(x)) <= 1

\* C19, amended: an invocation makes at most one product-creation call, and
\* only as its second call, after its own existence query was answered with
\* an empty list; so the products created for an origin identifier are at most
\* as many as the invocations whose query was answered empty, and each is one
\* product of the catalog.
C19_CreatesOnlyAfterEmptyAnswer ==
  /\ \A k \in 1..Len(Deliveries) :
       LET d == Deliveries[k]
       IN /\ Len(ProductCallsOf(d)) <= 1
          /\ Len(ProductCallsOf(d)) = 1 =>
               /\ IsExistenceCall(d.calls[1]) /\ IsProductCall(d.calls[2])
               /\ d.calls[1].out.ok /\ Len(d.calls[1].out.data) = 0
  /\ \A x \in Origins : CreatedFor(x) \subseteq AnsweredEmptyFor(x)
  /\ Len(catalog)
       = Cardinality({k \in 1..Len(Deliveries) : CreatedBy(Deliveries[k])})

\* the race: two invocations for one origin identifier both created a product
C19_Witness ==
  \E x \in Origins :
    /\ Cardinality(CreatedFor(x)) = 2
    /\ Cardinality(CatalogMatches(catalog, x)) >= 2

(***************************************************************************)
(* C21.  part_001, numeric price p: every variation request has            *)
(* regular_price exactly 40 above its sale_price; an option that is no     *)
(* custom size gets sale_price = p and regular_price = p + 40; an option   *)
(* labelled exactly "Custom Size (+40)" or "Custom Size (+$40)" gets both  *)
(* prices 40 above those of the other options of the product; the source's *)
(* regular_price has no part in either value.                              *)
(* Violated for a price of three fraction digits: the two prices are       *)
(* rounded to two decimals one by one (1.005: "1.00" and "41.01").         *)
(***************************************************************************)
\* the variation calls of part_001 for a product with a numeric price
MarkupCalls ==
  {i \in 1..Len(VariationCalls) :
     variant = "part_001" /\ ~ParseFloat(Val(product).price).nan}

SentOption(i) == VariationCalls[i].body.attributes[1].option
SentRegular(i) == ParseFloat(VariationCalls[i].body.regular_price)
SentSale(i) == ParseFloat(VariationCalls[i].body.sale_price)
LabelledCustom(i) == SentOption(i) \in {"Custom Size (+40)", "Custom Size (+$40)"}

\* what C21 says of the i-th call, p being the source price
MarkupRule(i, p) ==
  /\ SentRegular(i) = Plus(SentSale(i), Num(4000))
  /\ ~LabelledCustom(i) =>
       (SentSale(i) = p /\ SentRegular(i) = Plus(p, Num(4000)))
  /\ LabelledCustom(i) =>
       \A j \in MarkupCalls :
         ~LabelledCustom(j) =>
           /\ SentSale(i) = Plus(SentSale(j), Num(4000))
           /\ SentRegular(i) = Plus(SentRegular(j), Num(4000))

C21_RegularIsSalePlus40 ==
  \A i \in MarkupCalls : MarkupRule(i, ParseFloat(Val(product).price))

\* C21 as amended: the rule holds for every price of at most two fraction
\* digits, whatever the source's regular_price is (a custom option then gets
\* p + 40 and p + 80); for every numeric price both values are sent with two
\* decimals, each within half a cent of the exact value, so regular_price is
\* within one cent of sale_price + 40.
C21_RegularIsSalePlus40ForWholeCents ==
  \A i \in MarkupCalls :
    LET p == ParseFloat(Val(product).price)
        exactSale == IF LabelledCustom(i) THEN Plus(p, Num(4000)) ELSE p
        exactRegular == Plus(exactSale, Num(4000))
    IN /\ p.m = 0 =>
            /\ MarkupRule(i, p)
            /\ SentSale(i) = exactSale /\ SentRegular(i) = exactRegular
       /\ SentSale(i).m = 0 /\ SentRegular(i).m = 0
       /\ Milli(SentSale(i)) - Milli(exactSale) \in -5..5
       /\ Milli(SentRegular(i)) - Milli(exactRegular) \in -5..5
       /\ SentRegular(i).c - SentSale(i).c \in {3999, 4000, 4001}

\* a product with a regular_price of its own, a custom and a plain option
C21_Witness ==
  /\ variant = "part_001"
  /\ Returned /\ Status = 200
  /\ Len(VariationCalls) > 0
  /\ Val(product).price = Some(P_10_00)
  /\ Val(product).regular_price = Some(P_15_00)
  /\ \E i, j \in MarkupCalls :
       /\ LabelledCustom(i) /\ ~LabelledCustom(j)
       /\ VariationCalls[i].body.regular_price = Some(P_90_00)
       /\ VariationCalls[i].body.sale_price = Some(P_50_00)
       /\ VariationCalls[j].body.regular_price = Some(P_50_00)
       /\ VariationCalls[j].body.sale_price = Some(P_10_00)

====
